---- MODULE Spec2Model ----
(***************************************************************************)
(* Activity aggregation and snapshot lifecycle of the role monitoring bot. *)
(*                                                                         *)
(* One SQLite connection (the module level `db` handle) is shared by every *)
(* asynchronous task of the process: the message handler, the snapshot     *)
(* scheduler, the SIGINT handler and the HTTP handlers.  Every `await      *)
(* db.run/get/all` is one statement executed atomically by the connection; *)
(* between two statements of one task the statements of other tasks may    *)
(* run.  BEGIN/COMMIT/ROLLBACK act on the connection, not on the task that *)
(* issued them.                                                            *)
(***************************************************************************)
EXTENDS Integers, Sequences, FiniteSets, TLC

\* ------------------------------------------------------------------ bounds
\* operations (messages, snapshot calls, HTTP requests) started in one run
MaxOps == 2
\* statements rejected by the storage layer (disk full, I/O error) in one run
MaxFaults == 2
\* ticks of the scheduler's interval timer in one run
MaxTicks == 2

\* ------------------------------------------------------- program constants
chunkSize == 1000
DefaultKeepCount == 100
\* 1000 * 4 * 60 * 60 ms
SNAPSHOT_INTERVAL == 14400000
\* 1 * 60 * 60 * 1000 ms, subtracted from Date.now() by the scheduler
Skew == 3600000

TARGET_ROLES ==
  { "Super Prover", "Proofer", "PROVED UR LUV", "Prover", "PROOF OF ART",
    "PROOF OF DEV", "PROOF OF MUSIC", "PROOF OF WRITING", "PROOF OF VIDEO",
    "Proof Verified" }

\* ------------------------------------------------------------------ helpers
\* an optional value is the empty sequence or the sequence of the one value
Null == << >>
Some(x) == << x >>
NoMember == Null
NoTxn == Null

MaxOf(S) == CHOOSE x \in S : \A y \in S : y <= x

\* all orderings of the finite set S by the rank of its members, members of
\* equal rank in any order
RECURSIVE Orderings(_, _)
Orderings(S, rank) ==
  IF S = {} THEN { << >> }
  ELSE UNION { { << x >> \o t : t \in Orderings(S \ { x }, rank) } :
               x \in { x \in S : \A y \in S : rank[x] <= rank[y] } }

\* all orderings of the finite set S that respect the total preorder Before:
\* the rank of a member is the number of members strictly before it
SortedSeqs(S, Before(_, _)) ==
  Orderings(S, [ x \in S |-> Cardinality({ y \in S : ~Before(x, y) }) ])

RECURSIVE SumCount(_)
SumCount(rows) ==
  IF rows = {} THEN 0
  ELSE LET x == CHOOSE y \in rows : TRUE
       IN x.message_count + SumCount(rows \ {x})

\* TEXT comparison of the user ids that occur
UserRank(u) == CASE u = "u1" -> 1 [] u = "u2" -> 2 [] OTHER -> 3

\* ----------------------------------------------------------------- messages
\* A gateway message: author, channel, the cached member (its role names) or
\* null, and what guild.members.fetch would resolve to when it is null.
Msg(bot, id, tag, member, fetched, ch, chName) ==
  [ bot |-> bot, author_id |-> id, author_tag |-> tag, member |-> member,
    fetched |-> fetched, channel_id |-> ch, channel_name |-> chName ]

Messages ==
  { Msg(FALSE, "u1", "alice#1", Some(<<"@everyone", "Prover">>), NoMember,
        "c1", "general"),
    Msg(FALSE, "u1", "alice#2", NoMember, Some(<<"Proofer", "@everyone", "Prover">>),
        "c1", "general-chat"),
    Msg(FALSE, "u1", "alice#1", Some(<<"@everyone", "Prover">>), NoMember,
        "c2", "random"),
    Msg(FALSE, "u2", "bob#7", Some(<<"@everyone", "Proof Verified">>), NoMember,
        "c1", "general"),
    Msg(TRUE, "u9", "helper#0", Some(<<"@everyone", "Prover">>), NoMember,
        "c1", "general"),
    Msg(FALSE, "u3", "carol#3", Some(<<"@everyone", "Member">>), NoMember,
        "c1", "general"),
    Msg(FALSE, "u3", "carol#3", NoMember, NoMember, "c1", "general") }

Keys == { <<m.author_id, m.channel_id>> : m \in Messages }

hasTargetRole(member) ==
  IF member = NoMember THEN FALSE
  ELSE \E i \in 1..Len(member[1]) : member[1][i] \in TARGET_ROLES

\* the role names without "@everyone", in cache order (the joined string is
\* represented by the sequence of its parts)
getUserRoles(member) ==
  IF member = NoMember THEN <<>>
  ELSE SelectSeq(member[1], LAMBDA r : r # "@everyone")

\* message.member || await fetch(...).catch(() => null)
ResolveMember(m) == IF m.member # NoMember THEN m.member ELSE m.fetched

\* the early returns of processMessage
Qualifies(m) == ~m.bot /\ hasTargetRole(ResolveMember(m))

\* the bound parameters of the upsert statement
UpsertArgs(m) ==
  [ user_id |-> m.author_id, username |-> m.author_tag,
    roles |-> getUserRoles(ResolveMember(m)),
    channel_id |-> m.channel_id, channel_name |-> m.channel_name ]

\* ------------------------------------------------------------ the database
\* INSERT ... ON CONFLICT(user_id, channel_id) DO UPDATE on channel_activity
UpsertKeepsOldName(act, a) ==
  LET hit == { r \in act : r.user_id = a.user_id /\ r.channel_id = a.channel_id }
  IN IF hit = {}
     THEN act \cup { [ user_id |-> a.user_id, username |-> a.username,
                       roles |-> a.roles, channel_id |-> a.channel_id,
                       channel_name |-> a.channel_name, message_count |-> 1 ] }
     ELSE (act \ hit) \cup
          { [ r EXCEPT !.message_count = @ + 1 ] : r \in hit }

UpsertIgnoresConflict(act, a) ==
  LET hit == { r \in act : r.user_id = a.user_id /\ r.channel_id = a.channel_id }
  IN IF hit = {}
     THEN act \cup { [ user_id |-> a.user_id, username |-> a.username,
                       roles |-> a.roles, channel_id |-> a.channel_id,
                       channel_name |-> a.channel_name, message_count |-> 1 ] }
     ELSE act

Upsert(act, a) ==
  LET hit == { r \in act : r.user_id = a.user_id /\ r.channel_id = a.channel_id }
  IN IF hit = {}
     THEN act \cup { [ user_id |-> a.user_id, username |-> a.username,
                       roles |-> a.roles, channel_id |-> a.channel_id,
                       channel_name |-> a.channel_name, message_count |-> 1 ] }
     ELSE (act \ hit) \cup
          { [ r EXCEPT !.username = a.username, !.roles = a.roles,
                       !.channel_name = a.channel_name,
                       !.message_count = @ + 1 ] : r \in hit }

RowsOf(act, k) == { r \in act : r.user_id = k[1] /\ r.channel_id = k[2] }

\* ----------------------------------------------------- snapshot statements
\* SELECT MAX(id) FROM snapshots (0 stands for NULL)
MaxId(d) == IF d.snapshots = {} THEN 0 ELSE MaxOf({ s.id : s \in d.snapshots })

\* the rowid an AUTOINCREMENT table gives the next row: one more than the
\* larger of sqlite_sequence.seq and the largest rowid in the table
NextId(d) == (IF d.seq > MaxId(d) THEN d.seq ELSE MaxId(d)) + 1

\* CURRENT_TIMESTAMP has a resolution of one second
Timestamp(now) == now \div 1000

\* UNIQUE(name)
NameTaken(d, name) == \E s \in d.snapshots : s.name = name

\* INSERT INTO snapshots (name, created_at) VALUES (?, CURRENT_TIMESTAMP)
InsertSnapshot(d, name, now) ==
  [ d EXCEPT !.snapshots = @ \cup { [ id |-> NextId(d), name |-> name,
                                      created_at |-> Timestamp(now) ] },
             !.seq = NextId(d) ]

\* ORDER BY user_id, message_count DESC
ActivityBefore(a, b) ==
  \/ UserRank(a.user_id) < UserRank(b.user_id)
  \/ a.user_id = b.user_id /\ a.message_count >= b.message_count

\* SELECT ... FROM channel_activity ORDER BY user_id, message_count DESC:
\* the results the statement may return (rows that tie come in any order)
SelectActivity(d) == SortedSeqs(d.activity, ActivityBefore)

Frozen(snapshotId, item) ==
  [ snapshot_id |-> snapshotId, user_id |-> item.user_id,
    username |-> item.username, roles |-> item.roles,
    channel_id |-> item.channel_id, channel_name |-> item.channel_name,
    message_count |-> item.message_count ]

ChunkShort(data, i) ==
  SubSeq(data, i + 1, (IF i + chunkSize < Len(data) THEN i + chunkSize ELSE Len(data)) - 1)

\* data.slice(i, i + chunkSize)
Chunk(data, i) ==
  SubSeq(data, i + 1, IF i + chunkSize < Len(data) THEN i + chunkSize ELSE Len(data))

ChunkRows(snapshotId, chunk) == { Frozen(snapshotId, chunk[j]) : j \in 1..Len(chunk) }

\* PRIMARY KEY (snapshot_id, user_id, channel_id)
SameRecord(a, b) ==
  a.snapshot_id = b.snapshot_id /\ a.user_id = b.user_id /\ a.channel_id = b.channel_id

ChunkConflicts(d, snapshotId, chunk) ==
  \/ \E a \in ChunkRows(snapshotId, chunk), b \in d.snapshot_data : SameRecord(a, b)
  \/ \E j, k \in 1..Len(chunk) :
       j # k /\ SameRecord(Frozen(snapshotId, chunk[j]), Frozen(snapshotId, chunk[k]))

InsertChunkReplacing(d, snapshotId, chunk) ==
  [ d EXCEPT !.snapshot_data =
      { r \in @ : ~ \E c \in ChunkRows(snapshotId, chunk) :
                       c.user_id = r.user_id /\ c.channel_id = r.channel_id }
        \cup ChunkRows(snapshotId, chunk) ]

\* INSERT INTO snapshot_data (...) VALUES (...), (...), ...
InsertChunk(d, snapshotId, chunk) ==
  [ d EXCEPT !.snapshot_data = @ \cup ChunkRows(snapshotId, chunk) ]

DeleteDataKeeps(d, id) == d

\* DELETE FROM snapshot_data WHERE snapshot_id = ?
DeleteData(d, id) ==
  [ d EXCEPT !.snapshot_data = { r \in @ : r.snapshot_id # id } ]

\* DELETE FROM snapshots WHERE id = ?
DeleteSnapshotRow(d, id) ==
  [ d EXCEPT !.snapshots = { s \in @ : s.id # id } ]

\* UPDATE sqlite_sequence SET seq = ? WHERE name = 'snapshots'
SetSeq(d, v) == [ d EXCEPT !.seq = v ]

RecordsOf(d, id) == { r \in d.snapshot_data : r.snapshot_id = id }

\* ------------------------------------------------------------------- state
VARIABLES
  db,        \* what the connection sees: activity, snapshots, snapshot_data, seq
  txn,       \* NoTxn, or the database as it was at BEGIN (what ROLLBACK restores)
  clock,     \* Date.now(), in ms, when it was last read
  alive,     \* FALSE once process.exit has run
  ops,       \* operations started so far
  faults,    \* statements rejected by the storage layer so far
  inflight,  \* upsert statements issued by processMessage and not yet executed
  calls,     \* history of processMessage per (user_id, channel_id)
  task,      \* the calls of createSnapshot and cleanupOldSnapshots in progress
  dl,        \* the DELETE /api/snapshots/:id requests in progress
  rd,        \* the GET /api/snapshots/:id? request in progress
  sched      \* setupAutomaticSnapshots: its position, its timers, its counts

vars == << db, txn, clock, alive, ops, faults, inflight, calls, task, dl, rd,
           sched >>

\* callers of createSnapshot: a firing of the scheduler (which goes on to
\* cleanupOldSnapshots) and the SIGINT handler (which goes on to exit)
Creators == { "timer", "sigint" }
\* callers of cleanupOldSnapshots: a firing, and a direct call with a keepCount
Pruners == { "timer", "maint" }
\* the createSnapshot/cleanupOldSnapshots pairs of the scheduler: the one of
\* setupAutomaticSnapshots itself, the one of its setTimeout callback and the
\* ones of its setInterval callback
Firings == { "setup", "timer", "tick" }
Procs == Creators \cup Pruners \cup Firings
KeepCounts == { 1, 2 }
\* the express handlers that may be running at once, and the ids requested
Handlers == { "d1", "d2" }
RequestIds == { 1, 2, 3 }
Instants == { 5000, 5400 }

IdleDelete ==
  [ pc |-> "idle", id |-> 0, isLast |-> FALSE, newMax |-> 0, status |-> 0,
    reset |-> FALSE, removed |-> 0, pre |-> Null, seen |-> Null ]

IdleReader ==
  [ pc |-> "idle", id |-> 0, snapshot |-> Null, users |-> << >>, resp |-> Null ]

IdleTask ==
  [ pc |-> "idle", name |-> 0, id |-> 0, data |-> << >>, i |-> 0, keep |-> 0,
    ids |-> << >>, result |-> Null, why |-> "", pre |-> Null, seen |-> {} ]

\* the scheduler before setupAutomaticSnapshots is called: lastSnapshotTime,
\* the Date.now() it read, initialDelay, the instant its pending timer is due,
\* the createSnapshot calls it has made, the ticks of its interval timer and
\* the instants at which it called createSnapshot
SchedOff ==
  [ pc |-> "off", at |-> 0, last |-> Null, delay |-> 0, due |-> 0, creates |-> 0,
    ticks |-> 0, fired |-> << >> ]

\* the snapshot tables and the id watermark
SnapState(d) ==
  [ snapshots |-> d.snapshots, snapshot_data |-> d.snapshot_data, seq |-> d.seq ]

EmptyDb == [ activity |-> {}, snapshots |-> {}, snapshot_data |-> {}, seq |-> 0 ]

\* per pair: calls that issued the upsert, upserts executed, upserts rejected,
\* the most statements in flight at once, the values of the last one executed
NoCalls == [ issued |-> 0, acked |-> 0, dropped |-> 0, peak |-> 0, last |-> Null ]

InFlightFor(fl, k) ==
  LET ms == { m \in Messages : m.author_id = k[1] /\ m.channel_id = k[2] }
      RECURSIVE Sum(_)
      Sum(S) == IF S = {} THEN 0
                ELSE LET x == CHOOSE y \in S : TRUE IN fl[x] + Sum(S \ {x})
  IN Sum(ms)

InTxn == txn # NoTxn

\* what a second connection (or the next process) would see
Committed == IF InTxn THEN txn[1] ELSE db

CanStart == alive /\ ops < MaxOps
CanFault == faults < MaxFaults

\* whether the storage layer rejects the statement that a step executes as
\* the call or request comes in: it can while rejections remain
Rejections == IF CanFault THEN BOOLEAN ELSE { FALSE }

Rejected(rejected) == faults' = faults + (IF rejected THEN 1 ELSE 0)

\* ---------------------------------------------------------- processMessage
\* Events.MessageCreate: the filters run and the upsert statement is issued.
Receive(m) ==
  /\ CanStart
  /\ IF Qualifies(m)
     THEN /\ ops' = ops + 1
          /\ inflight' = [ inflight EXCEPT ![m] = @ + 1 ]
          /\ calls' = [ calls EXCEPT ![<<m.author_id, m.channel_id>>] =
                         [ @ EXCEPT !.issued = @ + 1,
                             !.peak = IF InFlightFor(inflight', <<m.author_id, m.channel_id>>) > @
                                      THEN InFlightFor(inflight', <<m.author_id, m.channel_id>>)
                                      ELSE @ ] ]
     ELSE UNCHANGED << ops, inflight, calls >>
  /\ UNCHANGED << db, txn, clock, alive, faults, task, dl, rd >>
  /\ UNCHANGED sched

\* the statement runs: one atomic step of the connection
RunUpsert(m) ==
  /\ alive
  /\ inflight[m] > 0
  /\ inflight' = [ inflight EXCEPT ![m] = @ - 1 ]
  /\ db' = [ db EXCEPT !.activity = Upsert(@, UpsertArgs(m)) ]
  /\ calls' = [ calls EXCEPT ![<<m.author_id, m.channel_id>>] =
                 [ @ EXCEPT !.acked = @ + 1, !.last = Some(UpsertArgs(m)) ] ]
  /\ UNCHANGED << txn, clock, alive, ops, faults, task, dl, rd >>
  /\ UNCHANGED sched

\* the statement is rejected: the catch logs it and the message is dropped
FailUpsert(m) ==
  /\ alive
  /\ inflight[m] > 0
  /\ CanFault
  /\ faults' = faults + 1
  /\ inflight' = [ inflight EXCEPT ![m] = @ - 1 ]
  /\ calls' = [ calls EXCEPT ![<<m.author_id, m.channel_id>>].dropped = @ + 1 ]
  /\ UNCHANGED << db, txn, clock, alive, ops, task, dl, rd >>
  /\ UNCHANGED sched

\* ---------------------------------------------------------- createSnapshot
\* where a call of createSnapshot can be: the statement it is waiting for
CreatePcs ==
  { "c_begin", "c_insert", "c_read", "c_norows", "c_batch", "c_commit", "c_catch" }

\* createSnapshot returns r to its caller, leaving the database d and the
\* transaction state t.  The firing goes on to cleanupOldSnapshots(db), whose
\* SELECT is issued at once; the SIGINT handler goes on to process.exit(0),
\* and what the connection had not committed is gone with the process.
Return(p, r, why, d, t) ==
  IF p = "sigint"
  THEN /\ alive' = FALSE
       /\ db' = (IF t # NoTxn THEN t[1] ELSE d)
       /\ txn' = NoTxn
       /\ task' = [ task EXCEPT ![p] = [ @ EXCEPT !.pc = "exited", !.result = r,
                                                  !.why = why ] ]
  ELSE /\ alive' = alive
       /\ db' = d
       /\ txn' = t
       /\ task' = [ task EXCEPT ![p] = [ @ EXCEPT !.pc = "p_list", !.result = r,
                                                  !.why = why,
                                                  !.keep = DefaultKeepCount ] ]

Goto(p, pc) == task' = [ task EXCEPT ![p].pc = pc ]

\* new Date() at the call: with the scheduler off, any of the instants not yet
\* past; under the scheduler, whose clock is kept by its timers, a reading
\* later than the last one
CallInstants ==
  IF sched.pc = "off" THEN { now \in Instants : now >= clock } ELSE { clock + 1 }

\* CURRENT_TIMESTAMP at the INSERT
InsertInstants ==
  IF sched.pc = "off" THEN { now \in Instants : now >= clock } ELSE { clock }

\* createSnapshot(db) is called as p: the name is taken from new Date() and
\* BEGIN TRANSACTION is issued; the call waits for the connection to run it
CallCreate(p) ==
  /\ \E now \in CallInstants : clock' = now
  /\ task' = [ task EXCEPT ![p] = [ IdleTask EXCEPT !.pc = "c_begin",
                                                   !.name = clock' ] ]
  /\ UNCHANGED << db, txn, alive, inflight, calls, dl, rd >>

\* a call of createSnapshot(db)
StartCreate(p) ==
  /\ CanStart
  /\ task[p].pc = "idle"
  /\ ops' = ops + 1
  /\ CallCreate(p)
  /\ UNCHANGED << faults, sched >>

\* BEGIN TRANSACTION runs; it is rejected when the connection is in a
\* transaction (outer catch: null)
CreateBegin(p) ==
  /\ alive
  /\ task[p].pc = "c_begin"
  /\ IF InTxn
     THEN Return(p, Null, "begin", db, txn)
     ELSE /\ txn' = Some(db)
          /\ task' = [ task EXCEPT ![p] = [ @ EXCEPT !.pc = "c_insert",
                                                     !.pre = Some(SnapState(db)) ] ]
          /\ UNCHANGED << db, alive >>
  /\ UNCHANGED << clock, ops, faults, inflight, calls, dl, rd >>
  /\ UNCHANGED sched

\* INSERT INTO snapshots; result.lastID is the new id
CreateInsert(p) ==
  /\ alive
  /\ task[p].pc = "c_insert"
  /\ \E now \in InsertInstants : clock' = now
  /\ IF NameTaken(db, task[p].name)
     THEN Goto(p, "c_catch") /\ UNCHANGED db
     ELSE /\ db' = InsertSnapshot(db, task[p].name, clock')
          /\ task' = [ task EXCEPT ![p] = [ @ EXCEPT !.pc = "c_read",
                                                     !.id = NextId(db) ] ]
  /\ UNCHANGED << txn, alive, ops, faults, inflight, calls, dl, rd >>
  /\ UNCHANGED sched

CreateReadNoGuard(p) ==
  /\ alive
  /\ task[p].pc = "c_read"
  /\ \E data \in SelectActivity(db) :
       task' = [ task EXCEPT ![p] = [ @ EXCEPT !.pc = "c_batch",
                   !.data = data, !.i = 0, !.seen = db.activity ] ]
  /\ UNCHANGED << db, txn, clock, alive, ops, faults, inflight, calls, dl, rd >>
  /\ UNCHANGED sched

\* SELECT ... FROM channel_activity; an empty result leads to ROLLBACK
CreateRead(p) ==
  /\ alive
  /\ task[p].pc = "c_read"
  /\ \E data \in SelectActivity(db) :
       task' = [ task EXCEPT ![p] = [ @ EXCEPT
                   !.pc = IF Len(data) = 0 THEN "c_norows" ELSE "c_batch",
                   !.data = data, !.i = 0, !.seen = db.activity ] ]
  /\ UNCHANGED << db, txn, clock, alive, ops, faults, inflight, calls, dl, rd >>
  /\ UNCHANGED sched

\* ROLLBACK of the empty snapshot; ROLLBACK is rejected when the connection is
\* in no transaction, which the inner catch then handles
CreateNoRows(p) ==
  /\ alive
  /\ task[p].pc = "c_norows"
  /\ IF InTxn
     THEN Return(p, Null, "empty", txn[1], NoTxn)
     ELSE Goto(p, "c_catch") /\ UNCHANGED << db, txn, alive >>
  /\ UNCHANGED << clock, ops, faults, inflight, calls, dl, rd >>
  /\ UNCHANGED sched

\* one INSERT INTO snapshot_data of at most chunkSize rows
CreateBatch(p) ==
  /\ alive
  /\ task[p].pc = "c_batch"
  /\ LET t == task[p]
         chunk == Chunk(t.data, t.i)
     IN IF ChunkConflicts(db, t.id, chunk)
        THEN Goto(p, "c_catch") /\ UNCHANGED db
        ELSE /\ db' = InsertChunk(db, t.id, chunk)
             /\ task' = [ task EXCEPT ![p] = [ @ EXCEPT
                            !.i = t.i + chunkSize,
                            !.pc = IF t.i + chunkSize < Len(t.data)
                                   THEN "c_batch" ELSE "c_commit" ] ]
  /\ UNCHANGED << txn, clock, alive, ops, faults, inflight, calls, dl, rd >>
  /\ UNCHANGED sched

\* COMMIT, then return {id, name, count}
CreateCommit(p) ==
  /\ alive
  /\ task[p].pc = "c_commit"
  /\ IF InTxn
     THEN Return(p, Some([ id |-> task[p].id, name |-> task[p].name,
                           count |-> Len(task[p].data) ]), "ok", db, NoTxn)
     ELSE Goto(p, "c_catch") /\ UNCHANGED << db, txn, alive >>
  /\ UNCHANGED << clock, ops, faults, inflight, calls, dl, rd >>
  /\ UNCHANGED sched

\* the inner catch: ROLLBACK and return null; a rejected ROLLBACK reaches the
\* outer catch, which returns null as well
CreateCatch(p) ==
  /\ alive
  /\ task[p].pc = "c_catch"
  /\ IF InTxn
     THEN Return(p, Null, "error", txn[1], NoTxn)
     ELSE Return(p, Null, "error", db, txn)
  /\ UNCHANGED << clock, ops, faults, inflight, calls, dl, rd >>
  /\ UNCHANGED sched

\* the storage layer rejects the statement the call is waiting for: a rejected
\* BEGIN reaches the outer catch, which returns null; inside the inner try
\* (the ROLLBACK of the empty store included) the inner catch is next; a
\* rejected ROLLBACK of the inner catch reaches the outer catch, which returns
\* null and leaves the transaction open
CreateFault(p) ==
  /\ alive
  /\ task[p].pc \in CreatePcs
  /\ CanFault
  /\ faults' = faults + 1
  /\ IF task[p].pc = "c_begin"
     THEN Return(p, Null, "begin", db, txn)
     ELSE IF task[p].pc = "c_catch"
     THEN Return(p, Null, "error", db, txn)
     ELSE Goto(p, "c_catch") /\ UNCHANGED << db, txn, alive >>
  /\ UNCHANGED << clock, ops, inflight, calls, dl, rd >>
  /\ UNCHANGED sched

\* ----------------------------------------------------- cleanupOldSnapshots
\* where a call of cleanupOldSnapshots can be
PrunePcs ==
  { "p_list", "p_begin", "p_deldata", "p_delsnap", "p_commit", "p_catch" }

\* ORDER BY created_at DESC
NewerFirst(a, b) == a.created_at >= b.created_at

\* SELECT id FROM snapshots ORDER BY created_at DESC: the possible results
SelectSnapshotIds(d) ==
  { [ j \in 1..Len(o) |-> o[j].id ] : o \in SortedSeqs(d.snapshots, NewerFirst) }

\* snapshots.slice(keepCount).map(s => s.id)
snapshotsToDelete(ids, keepCount) == SubSeq(ids, keepCount + 1, Len(ids))

Finish(p) == task' = [ task EXCEPT ![p] = IdleTask ]

\* a direct call cleanupOldSnapshots(db, keepCount)
StartPrune(p, keepCount) ==
  /\ p = "maint"
  /\ CanStart
  /\ task[p].pc = "idle"
  /\ ops' = ops + 1
  /\ task' = [ task EXCEPT ![p] = [ IdleTask EXCEPT !.pc = "p_list",
                                                   !.keep = keepCount ] ]
  /\ UNCHANGED << db, txn, clock, alive, faults, inflight, calls, dl, rd >>
  /\ UNCHANGED sched

\* the SELECT and the early return; otherwise BEGIN TRANSACTION is issued
PruneList(p) ==
  /\ alive
  /\ task[p].pc = "p_list"
  /\ IF Cardinality(db.snapshots) <= task[p].keep
     THEN Finish(p)
     ELSE \E ids \in SelectSnapshotIds(db) :
            task' = [ task EXCEPT ![p] = [ @ EXCEPT !.pc = "p_begin",
                        !.ids = snapshotsToDelete(ids, task[p].keep), !.i = 1 ] ]
  /\ UNCHANGED << db, txn, clock, alive, ops, faults, inflight, calls, dl, rd >>
  /\ UNCHANGED sched

\* BEGIN TRANSACTION; a rejection (the connection is in a transaction)
\* reaches the outer catch
PruneBegin(p) ==
  /\ alive
  /\ task[p].pc = "p_begin"
  /\ IF InTxn
     THEN Finish(p) /\ UNCHANGED txn
     ELSE /\ txn' = Some(db)
          /\ task' = [ task EXCEPT ![p] = [ @ EXCEPT !.pc = "p_deldata",
                                                     !.pre = Some(SnapState(db)) ] ]
  /\ UNCHANGED << db, clock, alive, ops, faults, inflight, calls, dl, rd >>
  /\ UNCHANGED sched

PruneDeleteData(p) ==
  /\ alive
  /\ task[p].pc = "p_deldata"
  /\ db' = DeleteData(db, task[p].ids[task[p].i])
  /\ Goto(p, "p_delsnap")
  /\ UNCHANGED << txn, clock, alive, ops, faults, inflight, calls, dl, rd >>
  /\ UNCHANGED sched

PruneDeleteSnapshot(p) ==
  /\ alive
  /\ task[p].pc = "p_delsnap"
  /\ db' = DeleteSnapshotRow(db, task[p].ids[task[p].i])
  /\ task' = [ task EXCEPT ![p] = [ @ EXCEPT
                 !.i = @ + 1,
                 !.pc = IF task[p].i < Len(task[p].ids)
                        THEN "p_deldata" ELSE "p_commit" ] ]
  /\ UNCHANGED << txn, clock, alive, ops, faults, inflight, calls, dl, rd >>
  /\ UNCHANGED sched

PruneCommit(p) ==
  /\ alive
  /\ task[p].pc = "p_commit"
  /\ IF InTxn
     THEN txn' = NoTxn /\ Finish(p)
     ELSE Goto(p, "p_catch") /\ UNCHANGED txn
  /\ UNCHANGED << db, clock, alive, ops, faults, inflight, calls, dl, rd >>
  /\ UNCHANGED sched

\* the inner catch: ROLLBACK; a rejected ROLLBACK reaches the outer catch
PruneCatch(p) ==
  /\ alive
  /\ task[p].pc = "p_catch"
  /\ IF InTxn
     THEN db' = txn[1] /\ txn' = NoTxn
     ELSE UNCHANGED << db, txn >>
  /\ Finish(p)
  /\ UNCHANGED << clock, alive, ops, faults, inflight, calls, dl, rd >>
  /\ UNCHANGED sched

\* the storage layer rejects the statement the call is waiting for: the
\* SELECT, BEGIN and the ROLLBACK of the inner catch reach the outer catch,
\* which returns (after the ROLLBACK, with the transaction left open); the
\* statements of the inner try reach the inner catch
PruneFault(p) ==
  /\ alive
  /\ task[p].pc \in PrunePcs
  /\ CanFault
  /\ faults' = faults + 1
  /\ IF task[p].pc \in { "p_list", "p_begin", "p_catch" }
     THEN Finish(p)
     ELSE Goto(p, "p_catch")
  /\ UNCHANGED << db, txn, clock, alive, ops, inflight, calls, dl, rd >>
  /\ UNCHANGED sched

\* ------------------------------------------------ DELETE /api/snapshots/:id
Respond(h, status, reset) ==
  dl' = [ dl EXCEPT ![h] = [ @ EXCEPT !.pc = "idle", !.status = status,
                                      !.reset = reset, !.isLast = FALSE,
                                      !.newMax = 0, !.pre = Null,
                                      !.seen = Null ] ]

DelGoto(h, pc) == dl' = [ dl EXCEPT ![h].pc = pc ]

\* where a delete request can be after its first SELECT
DeletePcs ==
  { "d_max", "d_begin", "d_deldata", "d_delsnap", "d_newmax", "d_setseq",
    "d_commit", "d_catch" }

\* the request arrives and SELECT id FROM snapshots WHERE id = ? runs: 404
\* when there is no such row, 500 (outer catch) when the statement is
\* rejected (a second handler runs only beside the first)
StartDelete(h, id) ==
  /\ CanStart
  /\ dl[h].pc = "idle"
  /\ h = "d2" => dl["d1"].pc # "idle"
  /\ ops' = ops + 1
  /\ \E rejected \in Rejections :
       /\ Rejected(rejected)
       /\ IF rejected
          THEN dl' = [ dl EXCEPT ![h] = [ IdleDelete EXCEPT !.id = id, !.status = 500 ] ]
          ELSE IF \E s \in db.snapshots : s.id = id
          THEN dl' = [ dl EXCEPT ![h] = [ IdleDelete EXCEPT !.pc = "d_max", !.id = id,
                                            !.seen = Some(SnapState(db)) ] ]
          ELSE dl' = [ dl EXCEPT ![h] = [ IdleDelete EXCEPT !.id = id, !.status = 404 ] ]
  /\ UNCHANGED << db, txn, clock, alive, inflight, calls, task, rd >>
  /\ UNCHANGED sched

\* SELECT MAX(id); isLastSnapshot = (snapshotId === maxId); BEGIN is issued
DeleteMax(h) ==
  /\ alive
  /\ dl[h].pc = "d_max"
  /\ dl' = [ dl EXCEPT ![h] = [ @ EXCEPT !.pc = "d_begin",
                                         !.isLast = (dl[h].id = MaxId(db)),
                                         !.seen = IF @ = Some(SnapState(db))
                                                  THEN @ ELSE Null ] ]
  /\ UNCHANGED << db, txn, clock, alive, ops, faults, inflight, calls, task, rd >>
  /\ UNCHANGED sched

\* BEGIN TRANSACTION; a rejection reaches the outer catch: 500
DeleteBegin(h) ==
  /\ alive
  /\ dl[h].pc = "d_begin"
  /\ IF InTxn
     THEN Respond(h, 500, FALSE) /\ UNCHANGED txn
     ELSE /\ txn' = Some(db)
          /\ dl' = [ dl EXCEPT ![h] = [ @ EXCEPT !.pc = "d_deldata",
                                                 !.pre = Some(SnapState(db)) ] ]
  /\ UNCHANGED << db, clock, alive, ops, faults, inflight, calls, task, rd >>
  /\ UNCHANGED sched

DeleteRecords(h) ==
  /\ alive
  /\ dl[h].pc = "d_deldata"
  /\ db' = DeleteData(db, dl[h].id)
  /\ DelGoto(h, "d_delsnap")
  /\ UNCHANGED << txn, clock, alive, ops, faults, inflight, calls, task, rd >>
  /\ UNCHANGED sched

\* DELETE FROM snapshots WHERE id = ?  (removed: the rows it deleted)
DeleteRow(h) ==
  /\ alive
  /\ dl[h].pc = "d_delsnap"
  /\ db' = DeleteSnapshotRow(db, dl[h].id)
  /\ dl' = [ dl EXCEPT ![h] = [ @ EXCEPT
               !.pc = IF dl[h].isLast THEN "d_newmax" ELSE "d_commit",
               !.removed = Cardinality({ s \in db.snapshots : s.id = dl[h].id }) ] ]
  /\ UNCHANGED << txn, clock, alive, ops, faults, inflight, calls, task, rd >>
  /\ UNCHANGED sched

DeleteNewMaxStale(h) ==
  /\ alive
  /\ dl[h].pc = "d_newmax"
  /\ dl' = [ dl EXCEPT ![h] = [ @ EXCEPT !.pc = "d_setseq", !.newMax = dl[h].id ] ]
  /\ UNCHANGED << db, txn, clock, alive, ops, faults, inflight, calls, task, rd >>
  /\ UNCHANGED sched

DeleteNewMaxZero(h) ==
  /\ alive
  /\ dl[h].pc = "d_newmax"
  /\ dl' = [ dl EXCEPT ![h] = [ @ EXCEPT !.pc = "d_setseq", !.newMax = 0 ] ]
  /\ UNCHANGED << db, txn, clock, alive, ops, faults, inflight, calls, task, rd >>
  /\ UNCHANGED sched

\* SELECT MAX(id); newMaxId = maxId || 0
DeleteNewMax(h) ==
  /\ alive
  /\ dl[h].pc = "d_newmax"
  /\ dl' = [ dl EXCEPT ![h] = [ @ EXCEPT !.pc = "d_setseq", !.newMax = MaxId(db) ] ]
  /\ UNCHANGED << db, txn, clock, alive, ops, faults, inflight, calls, task, rd >>
  /\ UNCHANGED sched

DeleteSetSeq(h) ==
  /\ alive
  /\ dl[h].pc = "d_setseq"
  /\ db' = SetSeq(db, dl[h].newMax)
  /\ DelGoto(h, "d_commit")
  /\ UNCHANGED << txn, clock, alive, ops, faults, inflight, calls, task, rd >>
  /\ UNCHANGED sched

\* COMMIT, then 200 { success, autoIncrementReset: isLastSnapshot }
DeleteCommit(h) ==
  /\ alive
  /\ dl[h].pc = "d_commit"
  /\ IF InTxn
     THEN txn' = NoTxn /\ Respond(h, 200, dl[h].isLast)
     ELSE DelGoto(h, "d_catch") /\ UNCHANGED txn
  /\ UNCHANGED << db, clock, alive, ops, faults, inflight, calls, task, rd >>
  /\ UNCHANGED sched

\* the inner catch: ROLLBACK, then 500; a rejected ROLLBACK reaches the outer
\* catch, which answers 500 as well
DeleteCatch(h) ==
  /\ alive
  /\ dl[h].pc = "d_catch"
  /\ IF InTxn
     THEN db' = txn[1] /\ txn' = NoTxn
     ELSE UNCHANGED << db, txn >>
  /\ Respond(h, 500, FALSE)
  /\ UNCHANGED << clock, alive, ops, faults, inflight, calls, task, rd >>
  /\ UNCHANGED sched

\* the storage layer rejects the statement the handler is waiting for:
\* SELECT MAX(id), BEGIN and the ROLLBACK of the inner catch reach the outer
\* catch, which answers 500 (after the ROLLBACK, with the transaction left
\* open); the statements of the inner try reach the inner catch
DeleteFault(h) ==
  /\ alive
  /\ dl[h].pc \in DeletePcs
  /\ CanFault
  /\ faults' = faults + 1
  /\ IF dl[h].pc \in { "d_max", "d_begin", "d_catch" }
     THEN Respond(h, 500, FALSE)
     ELSE DelGoto(h, "d_catch")
  /\ UNCHANGED << db, txn, clock, alive, ops, inflight, calls, task, rd >>
  /\ UNCHANGED sched

\* ------------------------------------------------- GET /api/snapshots/:id?
ListRow(d, sn) ==
  [ id |-> sn.id, name |-> sn.name, created_at |-> sn.created_at,
    record_count |-> Cardinality(RecordsOf(d, sn.id)) ]

\* SELECT id, name, created_at, (SELECT COUNT(*) ...) ORDER BY created_at DESC
SelectList(d) ==
  SortedSeqs({ ListRow(d, sn) : sn \in d.snapshots }, NewerFirst)

UserIds(d, id) == { r.user_id : r \in RecordsOf(d, id) }

\* one row of GROUP BY user_id: the total, and username and roles of some row
\* of the group
UserRows(d, id, u) ==
  LET group == { r \in RecordsOf(d, id) : r.user_id = u }
  IN { [ user_id |-> u, username |-> r.username, roles |-> r.roles,
         total_messages |-> SumCount(group) ] : r \in group }

TotalDesc(a, b) == a.total_messages >= b.total_messages

\* SELECT user_id, username, roles, SUM(message_count) ... GROUP BY user_id
\* ORDER BY total_messages DESC: the possible results
SelectUsers(d, id) ==
  LET us == UserIds(d, id)
      picks == { f \in [ us -> UNION { UserRows(d, id, u) : u \in us } ] :
                   \A u \in us : f[u] \in UserRows(d, id, u) }
  IN UNION { SortedSeqs({ f[u] : u \in us }, TotalDesc) : f \in picks }

\* SELECT user_id, channel_id, channel_name, message_count ... ORDER BY
\* user_id, message_count DESC: the possible results
SelectChannels(d, id) ==
  SortedSeqs({ [ user_id |-> r.user_id, channel_id |-> r.channel_id,
                 channel_name |-> r.channel_name,
                 message_count |-> r.message_count ] : r \in RecordsOf(d, id) },
             ActivityBefore)

\* userChannels[user_id], in the order of channelActivity
ChannelsOf(channelActivity, u) ==
  LET mine == SelectSeq(channelActivity, LAMBDA a : a.user_id = u)
  IN [ j \in 1..Len(mine) |->
         [ channel_id |-> mine[j].channel_id, channel_name |-> mine[j].channel_name,
           message_count |-> mine[j].message_count ] ]

\* users.map(user => ({...user, channels: userChannels[user.user_id] || []}))
UsersWithChannels(users, channelActivity) ==
  [ j \in 1..Len(users) |->
      [ user_id |-> users[j].user_id, username |-> users[j].username,
        roles |-> users[j].roles, total_messages |-> users[j].total_messages,
        channels |-> ChannelsOf(channelActivity, users[j].user_id) ] ]

\* the catch of the handler: 500 { error: 'Failed to fetch snapshot data' }
Failed(kind) == Some([ status |-> 500, kind |-> kind ])

\* GET /api/snapshots: one statement, answered at once
ListSnapshots ==
  /\ CanStart
  /\ rd.pc = "idle"
  /\ ops' = ops + 1
  /\ \E rejected \in Rejections :
       /\ Rejected(rejected)
       /\ IF rejected
          THEN rd' = [ IdleReader EXCEPT !.resp = Failed("list") ]
          ELSE \E rows \in SelectList(db) :
                 rd' = [ IdleReader EXCEPT !.resp = Some([ status |-> 200, kind |-> "list", list |-> rows ]) ]
  /\ UNCHANGED << db, txn, clock, alive, inflight, calls, task, dl >>
  /\ UNCHANGED sched

\* GET /api/snapshots/:id: the snapshot row is read; 404 without one
StartGet(id) ==
  /\ CanStart
  /\ rd.pc = "idle"
  /\ ops' = ops + 1
  /\ \E rejected \in Rejections :
       /\ Rejected(rejected)
       /\ LET found == { sn \in db.snapshots : sn.id = id }
          IN IF rejected
             THEN rd' = [ IdleReader EXCEPT !.id = id, !.resp = Failed("get") ]
             ELSE IF found = {}
             THEN rd' = [ IdleReader EXCEPT !.id = id, !.resp = Some([ status |-> 404, kind |-> "get" ]) ]
             ELSE rd' = [ IdleReader EXCEPT !.pc = "g_users", !.id = id,
                                           !.snapshot = Some(CHOOSE sn \in found : TRUE) ]
  /\ UNCHANGED << db, txn, clock, alive, inflight, calls, task, dl >>
  /\ UNCHANGED sched

GetUsers ==
  /\ alive
  /\ rd.pc = "g_users"
  /\ \E users \in SelectUsers(db, rd.id) :
       rd' = [ rd EXCEPT !.pc = "g_channels", !.users = users ]
  /\ UNCHANGED << db, txn, clock, alive, ops, faults, inflight, calls, task, dl >>
  /\ UNCHANGED sched

GetChannels ==
  /\ alive
  /\ rd.pc = "g_channels"
  /\ \E channelActivity \in SelectChannels(db, rd.id) :
       rd' = [ IdleReader EXCEPT !.id = rd.id,
                 !.resp = Some([ status |-> 200, kind |-> "get", snapshot |-> rd.snapshot[1],
                   users |-> UsersWithChannels(rd.users, channelActivity) ]) ]
  /\ UNCHANGED << db, txn, clock, alive, ops, faults, inflight, calls, task, dl >>
  /\ UNCHANGED sched

\* the users SELECT or the channels SELECT is rejected: 500
GetFault ==
  /\ alive
  /\ rd.pc \in { "g_users", "g_channels" }
  /\ CanFault
  /\ faults' = faults + 1
  /\ rd' = [ IdleReader EXCEPT !.id = rd.id, !.resp = Failed("get") ]
  /\ UNCHANGED << db, txn, clock, alive, ops, inflight, calls, task, dl >>
  /\ UNCHANGED sched

\* ----------------------------------------------------------- specification
\* The database file outlives the process: it is either new, or holds what
\* earlier runs committed (here the messages of two users counted in one
\* channel and three snapshots taken along the way, the last two within
\* one second by a firing and a shutdown, and one more message since).
SeedArgs ==
  UpsertArgs(Msg(FALSE, "u1", "alice#1", Some(<<"@everyone", "Prover">>), NoMember,
                 "c1", "general"))

BobArgs ==
  UpsertArgs(Msg(FALSE, "u2", "bob#7", Some(<<"@everyone", "Proof Verified">>),
                 NoMember, "c1", "general"))

BobRow(n) ==
  [ user_id |-> BobArgs.user_id, username |-> BobArgs.username,
    roles |-> BobArgs.roles, channel_id |-> BobArgs.channel_id,
    channel_name |-> BobArgs.channel_name, message_count |-> n ]

SeedRow(n) ==
  [ user_id |-> SeedArgs.user_id, username |-> SeedArgs.username,
    roles |-> SeedArgs.roles, channel_id |-> SeedArgs.channel_id,
    channel_name |-> SeedArgs.channel_name, message_count |-> n ]

\* the instants (ms) of the three snapshots: the last two in one second
SeedNames == << 1000, 2000, 2400 >>

SeededDb ==
  [ activity |-> { SeedRow(4), BobRow(2) },
    snapshots |-> { [ id |-> n, name |-> SeedNames[n],
                      created_at |-> Timestamp(SeedNames[n]) ] : n \in 1..3 },
    snapshot_data |-> { Frozen(n, SeedRow(n)) : n \in 1..3 } \cup { Frozen(3, BobRow(2)) },
    seq |-> 3 ]

InitialDbs == { EmptyDb, SeededDb }

\* the history of processMessage that left the activity rows of d
InitialCalls(d) ==
  [ k \in Keys |->
  IF RowsOf(d.activity, k) = {} THEN NoCalls
  ELSE LET r == CHOOSE x \in RowsOf(d.activity, k) : TRUE
       IN [ issued |-> r.message_count, acked |-> r.message_count,
            dropped |-> 0, peak |-> 1,
            last |-> Some([ user_id |-> r.user_id, username |-> r.username,
                            roles |-> r.roles, channel_id |-> r.channel_id,
                            channel_name |-> r.channel_name ]) ] ]

Init ==
  /\ db \in InitialDbs
  /\ txn = NoTxn
  /\ clock = 5000
  /\ alive = TRUE
  /\ ops = 0
  /\ faults = 0
  /\ inflight = [ m \in Messages |-> 0 ]
  /\ calls = InitialCalls(db)
  /\ task = [ p \in Procs |-> IdleTask ]
  /\ dl = [ h \in Handlers |-> IdleDelete ]
  /\ rd = IdleReader
  /\ sched = SchedOff

processMessage ==
  \E m \in Messages : Receive(m) \/ RunUpsert(m) \/ FailUpsert(m)

createSnapshot ==
  \E p \in Creators :
    \/ StartCreate(p) \/ CreateBegin(p) \/ CreateInsert(p) \/ CreateRead(p)
    \/ CreateNoRows(p) \/ CreateBatch(p) \/ CreateCommit(p) \/ CreateCatch(p)
    \/ CreateFault(p)

cleanupOldSnapshots ==
  \E p \in Pruners :
    \/ \E k \in KeepCounts : StartPrune(p, k)
    \/ PruneList(p) \/ PruneBegin(p) \/ PruneDeleteData(p)
    \/ PruneDeleteSnapshot(p) \/ PruneCommit(p) \/ PruneCatch(p) \/ PruneFault(p)

deleteSnapshot ==
  \E h \in Handlers :
    \/ \E id \in RequestIds : StartDelete(h, id)
    \/ DeleteMax(h) \/ DeleteBegin(h) \/ DeleteRecords(h) \/ DeleteRow(h)
    \/ DeleteNewMax(h) \/ DeleteSetSeq(h) \/ DeleteCommit(h) \/ DeleteCatch(h)
    \/ DeleteFault(h)

ReadSnapshots ==
  \/ ListSnapshots
  \/ \E id \in RequestIds : StartGet(id)
  \/ GetUsers
  \/ GetChannels
  \/ GetFault

Next ==
  \/ processMessage
  \/ createSnapshot
  \/ cleanupOldSnapshots
  \/ deleteSnapshot
  \/ ReadSnapshots

Spec == Init /\ [][Next]_vars

\* message handling alone: the calls of processMessage and their statements
SpecActivity == Init /\ [][processMessage]_vars

\* ------------------------------------------------- setupAutomaticSnapshots
\* new Date(created_at + 'Z'): the stored second, read as UTC, in ms
ParseUtc(created_at) == created_at * 1000

\* SELECT created_at FROM snapshots ORDER BY created_at DESC LIMIT 1
getLastSnapshotTime(d) ==
  IF d.snapshots = {} THEN Null
  ELSE Some(ParseUtc(MaxOf({ sn.created_at : sn \in d.snapshots })))

initialDelayNoSkew(now, lastSnapshotTime) ==
  IF now - lastSnapshotTime < SNAPSHOT_INTERVAL
  THEN SNAPSHOT_INTERVAL - (now - lastSnapshotTime)
  ELSE 0

\* now = Date.now() - 1h; timeSinceLastSnapshot = now - lastSnapshotTime;
\* initialDelay stays 0 unless timeSinceLastSnapshot < SNAPSHOT_INTERVAL
initialDelay(now, lastSnapshotTime) ==
  LET timeSinceLastSnapshot == (now - Skew) - lastSnapshotTime
  IN IF timeSinceLastSnapshot < SNAPSHOT_INTERVAL
     THEN SNAPSHOT_INTERVAL - timeSinceLastSnapshot
     ELSE 0

\* the scheduler calls createSnapshot(db) as p
Called == [ sched EXCEPT !.creates = @ + 1, !.fired = Append(@, clock) ]

\* what follows `await getLastSnapshotTime(db)`: with a time, initialDelay is
\* computed and setTimeout is called; without, createSnapshot is called
Schedule(lastSnapshotTime) ==
  IF lastSnapshotTime # Null
  THEN /\ sched' = [ sched EXCEPT !.pc = "timeout", !.at = clock,
                        !.last = lastSnapshotTime,
                        !.delay = initialDelay(clock, lastSnapshotTime[1]),
                        !.due = clock + initialDelay(clock, lastSnapshotTime[1]) ]
       /\ UNCHANGED << db, txn, clock, alive, inflight, calls, task, dl, rd >>
  ELSE /\ sched' = [ Called EXCEPT !.pc = "first", !.at = clock ]
       /\ CallCreate("setup")

\* the SELECT of getLastSnapshotTime runs
SetupStart ==
  /\ sched.pc = "start"
  /\ Schedule(getLastSnapshotTime(db))
  /\ UNCHANGED << ops, faults >>

\* the SELECT of getLastSnapshotTime is rejected: its catch returns null
SetupFault ==
  /\ sched.pc = "start"
  /\ CanFault
  /\ faults' = faults + 1
  /\ Schedule(Null)
  /\ UNCHANGED ops

\* createSnapshot and cleanupOldSnapshots of the first branch have returned:
\* setTimeout(..., 0)
SetupDone ==
  /\ sched.pc = "first"
  /\ task["setup"].pc = "idle"
  /\ sched' = [ sched EXCEPT !.pc = "timeout", !.delay = 0, !.due = clock ]
  /\ UNCHANGED << db, txn, clock, alive, ops, faults, inflight, calls, task, dl, rd >>

\* time passes until the pending timer is due, however far the statements of
\* the firings in progress have got
Advance ==
  /\ sched.pc \in { "timeout", "interval" }
  /\ sched.pc = "interval" => sched.ticks < MaxTicks
  /\ clock < sched.due
  /\ clock' = sched.due
  /\ UNCHANGED << db, txn, alive, ops, faults, inflight, calls, task, dl, rd, sched >>

\* the setTimeout callback: setInterval(..., SNAPSHOT_INTERVAL), then the
\* first firing
TimeoutFires ==
  /\ sched.pc = "timeout"
  /\ clock >= sched.due
  /\ sched' = [ Called EXCEPT !.pc = "interval", !.due = clock + SNAPSHOT_INTERVAL ]
  /\ CallCreate("timer")
  /\ UNCHANGED << ops, faults >>

\* the setInterval callback, run as p, the first of tick, timer and setup
\* that is free: it is not held back by a firing that has not returned
Tick(p) ==
  /\ sched.pc = "interval"
  /\ sched.ticks < MaxTicks
  /\ clock >= sched.due
  /\ task[p].pc = "idle"
  /\ p = "timer" => task["tick"].pc # "idle"
  /\ p = "setup" => task["tick"].pc # "idle" /\ task["timer"].pc # "idle"
  /\ sched' = [ Called EXCEPT !.ticks = @ + 1, !.due = @ + SNAPSHOT_INTERVAL ]
  /\ CallCreate(p)
  /\ UNCHANGED << ops, faults >>

\* a database without snapshots that has counted messages
ActivityOnlyDb == [ EmptyDb EXCEPT !.activity = SeededDb.activity ]

\* Date.now() when setupAutomaticSnapshots is called: half an hour, two,
\* five and seven hours after the instant of the last seeded snapshot
StartInstants ==
  { ParseUtc(Timestamp(SeedNames[3])) + h : h \in { Skew \div 2, 2 * Skew, 5 * Skew, 7 * Skew } }

\* without a snapshot the start instant makes no difference: one is taken
InitScheduler ==
  /\ db \in { EmptyDb, ActivityOnlyDb, SeededDb }
  /\ txn = NoTxn
  /\ clock \in StartInstants
  /\ db.snapshots = {} => clock = MaxOf(StartInstants)
  /\ alive = TRUE
  /\ ops = 0
  /\ faults = 0
  /\ inflight = [ m \in Messages |-> 0 ]
  /\ calls = InitialCalls(db)
  /\ task = [ p \in Procs |-> IdleTask ]
  /\ dl = [ h \in Handlers |-> IdleDelete ]
  /\ rd = IdleReader
  /\ sched = [ SchedOff EXCEPT !.pc = "start" ]

\* the statements of the scheduler's createSnapshot and cleanupOldSnapshots
\* calls; with keepCount = 100 the latter returns after its SELECT
Firing ==
  \E p \in Firings :
    \/ CreateBegin(p) \/ CreateInsert(p) \/ CreateRead(p) \/ CreateNoRows(p)
    \/ CreateBatch(p) \/ CreateCommit(p) \/ CreateCatch(p) \/ CreateFault(p)
    \/ PruneList(p) \/ PruneFault(p)

setupAutomaticSnapshots ==
  \/ SetupStart
  \/ SetupFault
  \/ SetupDone
  \/ Advance
  \/ TimeoutFires
  \/ \E p \in Firings : Tick(p)
  \/ Firing

SpecScheduler == InitScheduler /\ [][setupAutomaticSnapshots]_vars

\* timers that are due fire and statements that were issued complete
SpecSchedulerLive == SpecScheduler /\ WF_vars(setupAutomaticSnapshots)

\* ================================================================== claims
CountOf(d, k) == SumCount(RowsOf(d.activity, k))

\* C1: counting.  For every pair (user_id, channel_id) with N >= 1 executed
\* upserts there is exactly one activity record, its message_count is N, and
\* its username, roles and channel_name are those of the last upsert executed,
\* whatever upserts for other pairs ran in between.
C1_Counting ==
  \A k \in Keys :
    calls[k].acked >= 1 =>
      /\ Cardinality(RowsOf(db.activity, k)) = 1
      /\ \A r \in RowsOf(db.activity, k) :
           /\ r.message_count = calls[k].acked
           /\ r.username = calls[k].last[1].username
           /\ r.roles = calls[k].last[1].roles
           /\ r.channel_name = calls[k].last[1].channel_name

\* two upserts of one pair with different names and roles have run on a new
\* database, the second being the last
C1_Witness ==
  /\ calls[<<"u1", "c1">>].acked = 2
  /\ calls[<<"u1", "c1">>].last[1].username = "alice#2"
  /\ \E r \in db.activity :
       r.user_id = "u1" /\ r.channel_id = "c1" /\ r.message_count = 2
         /\ r.roles = <<"Proofer", "Prover">>

\* C2: no lost increment.  Once no upsert statement is in flight, the
\* message_count of every pair is the number of processMessage calls that
\* issued an upsert for it, less those the storage layer rejected, however the
\* calls overlapped.
C2_NoLostIncrement ==
  (\A m \in Messages : inflight[m] = 0) =>
    \A k \in Keys : CountOf(db, k) = calls[k].issued - calls[k].dropped

\* two calls for one pair were in flight together and both have run
C2_Witness ==
  /\ \A m \in Messages : inflight[m] = 0
  /\ \E k \in Keys :
       calls[k].peak = 2 /\ calls[k].dropped = 0 /\ CountOf(db, k) = calls[k].issued

\* createSnapshot, called by p, returns in this step, after one of its
\* statements has run or was rejected
CreateReturns(p) == task[p].pc \in CreatePcs /\ task'[p].pc \notin CreatePcs

\* C3: an upsert executed while a snapshot transaction is open is not lost
\* when that transaction ends, also when the storage layer rejects nothing:
\* with no transaction open, every pair counts all its executed upserts; and a
\* snapshot that createSnapshot reported holds exactly the rows its SELECT
\* returned.
C3_UpsertSurvivesTransaction ==
  (~InTxn /\ faults = 0) =>
    /\ \A k \in Keys : CountOf(db, k) = calls[k].acked
    /\ \A p \in Creators :
         ( /\ task[p].why = "ok"
           /\ \E sn \in db.snapshots :
                sn.id = task[p].result[1].id /\ sn.name = task[p].result[1].name )
         => RecordsOf(db, task[p].id) = ChunkRows(task[p].id, task[p].data)

\* C4: createSnapshot is all or nothing.  When a step after BEGIN fails
\* (a return through the inner catch), the call returns null and the
\* snapshots, the snapshot records and the id watermark are those of the
\* moment its transaction was opened; and what is committed never contains
\* the snapshot of a call still in progress.
C4_CreateAllOrNothing ==
  /\ [][ \A p \in Creators :
           (CreateReturns(p) /\ task'[p].why = "error") =>
             /\ task'[p].result = Null
             /\ SnapState(db') = task[p].pre[1] ]_vars
  /\ [](\A p \in Creators :
          task[p].pc \in CreatePcs =>
            ~ \E sn \in Committed.snapshots : sn.name = task[p].name /\ sn.id = task[p].id)

SeenWhole(resp) ==
  IF resp.status # 200 THEN TRUE
  ELSE IF resp.kind = "list"
  THEN \A j \in 1..Len(resp.list) : resp.list[j].record_count >= 1
  ELSE /\ Len(resp.users) >= 1
       /\ \A j \in 1..Len(resp.users) : Len(resp.users[j].channels) >= 1

\* C5: readers never see a partial snapshot.  Every snapshot a list response
\* shows has records, and every get response that shows a snapshot shows its
\* users and their channels.
C5_NoPartialSnapshotVisible ==
  (rd.resp # Null /\ faults = 0) => SeenWhole(rd.resp[1])

\* C6: empty-store guard.  A createSnapshot that returns on an empty store
\* returns null and commits nothing new; when it returns from the ROLLBACK
\* of the empty snapshot, the snapshots and the watermark are as they were
\* when its transaction was opened; no committed snapshot is without records.
C6_EmptyStoreGuard ==
  /\ [][ \A p \in Creators :
           /\ (CreateReturns(p) /\ db.activity = {}) =>
                /\ task'[p].result = Null
                /\ SnapState(Committed') = SnapState(Committed)
           /\ (CreateReturns(p) /\ task[p].pc = "c_norows") =>
                /\ task'[p].result = Null
                /\ SnapState(db') = task[p].pre[1] ]_vars
  /\ [](\A sn \in Committed.snapshots : RecordsOf(Committed, sn.id) # {})

\* createSnapshot ran on a new, empty database and returned null
C6_Witness ==
  \E p \in Creators :
    /\ task[p].why = "empty"
    /\ task[p].seen = {}
    /\ task[p].result = Null
    /\ ~InTxn
    /\ db.snapshots = {} /\ db.seq = 0

\* the users of a get response agree with the activity rows `store`
Faithful(users, store) ==
  /\ { users[j].user_id : j \in 1..Len(users) } = { r.user_id : r \in store }
  /\ \A j, k \in 1..Len(users) : j # k => users[j].user_id # users[k].user_id
  /\ \A j \in 1..Len(users) :
       LET mine == { r \in store : r.user_id = users[j].user_id }
           ch == users[j].channels
       IN /\ users[j].total_messages = SumCount(mine)
          /\ Len(ch) = Cardinality(mine)
          /\ { ch[n] : n \in 1..Len(ch) } =
               { [ channel_id |-> r.channel_id, channel_name |-> r.channel_name,
                   message_count |-> r.message_count ] : r \in mine }

\* C7: snapshot fidelity.  When createSnapshot commits and returns {id, name,
\* count}, the three statements of GET /api/snapshots/id, run at once, give
\* for every user of the activity store as it was read one entry whose
\* total_messages is the sum of that user's message_count and whose channels
\* are that user's activity records, nothing else, and count is the number of
\* activity records.
C7_SnapshotFidelity ==
  [][ \A p \in Creators :
        (CreateReturns(p) /\ task'[p].why = "ok") =>
          LET r == task'[p].result[1]
              store == task[p].seen
          IN /\ r.count = Cardinality(store)
             /\ r.name = task[p].name
             /\ \E sn \in db'.snapshots : sn.id = r.id /\ sn.name = r.name
             /\ store # {}
             /\ \A users \in SelectUsers(db', r.id) :
                  \A channelActivity \in SelectChannels(db', r.id) :
                    Faithful(UsersWithChannels(users, channelActivity), store) ]_vars

\* a snapshot was committed of a store in which one user has two channels and
\* another user one
C7_Witness ==
  \E p \in Creators :
    /\ task[p].why = "ok"
    /\ Cardinality(task[p].seen) = 3
    /\ \E a, b \in task[p].seen : a.user_id = b.user_id /\ a.channel_id # b.channel_id
    /\ Cardinality(RecordsOf(db, task[p].result[1].id)) = 3

\* C8: deletion reclamation.  When a delete request commits and the snapshots
\* were the same at its SELECT, its MAX(id) query and its BEGIN: if its id was
\* the maximum, the watermark is the maximum id that remains (0 if none), the
\* next snapshot gets that plus one, and autoIncrementReset is true; if not,
\* the watermark is what it was and autoIncrementReset is false.
C8_DeletionReclamation ==
  [][ \A h \in Handlers :
        (dl[h].pc = "d_commit" /\ dl'[h].status = 200 /\ dl'[h].pc = "idle"
           /\ dl[h].seen = dl[h].pre) =>
          LET before == dl[h].pre[1]
              wasMax == dl[h].id = MaxOf({ sn.id : sn \in before.snapshots })
          IN /\ dl[h].id \in { sn.id : sn \in before.snapshots }
             /\ db'.snapshots = { sn \in before.snapshots : sn.id # dl[h].id }
             /\ dl'[h].reset = wasMax
             /\ wasMax => /\ db'.seq = MaxId(db')
                          /\ NextId(db') = MaxId(db') + 1
             /\ ~wasMax => /\ db'.seq = before.seq
                           /\ NextId(db') = NextId([ snapshots |-> before.snapshots,
                                                     seq |-> before.seq ]) ]_vars

\* with ids 1, 2, 3, snapshot 3 was deleted and the next snapshot got id 3
C8_Witness ==
  /\ \E h \in Handlers : dl[h].status = 200 /\ dl[h].id = 3 /\ dl[h].reset
  /\ \E sn \in db.snapshots : sn.id = 3 /\ sn.name >= 5000
  /\ { sn.id : sn \in db.snapshots } = { 1, 2, 3 }

\* C9: a delete request for an id without snapshot answers 404 and changes
\* nothing, and a delete request that answers 200 has itself removed the
\* snapshot of that id, also when the storage layer rejects nothing.
C9_DeleteReportsWhatItDid ==
  /\ [][ \A h \in Handlers :
           (dl[h].pc = "idle" /\ dl'[h] # dl[h] /\ dl'[h].status = 404) =>
             db' = db /\ txn' = txn ]_vars
  /\ [](faults = 0 => \A h \in Handlers : dl[h].status = 200 => dl[h].removed = 1)

\* C10: a delete request is all or nothing.  When a step inside its
\* transaction fails, the transaction is rolled back, the answer is 500, and
\* the snapshots, the snapshot records and the watermark are those of the
\* moment its transaction began.
C10_DeleteAllOrNothing ==
  [][ \A h \in Handlers :
        (dl[h].pc = "d_catch" /\ dl'[h].pc = "idle") =>
          /\ dl'[h].status = 500
          /\ ~dl'[h].reset
          /\ txn' = NoTxn
          /\ SnapState(db') = dl[h].pre[1] ]_vars

\* cleanupOldSnapshots, called by p, commits in this step, and its SELECT had
\* seen the snapshots that were there when its transaction began
PruneCommits(p) ==
  /\ task[p].pc = "p_commit" /\ task'[p].pc = "idle"
  /\ \E ids \in SelectSnapshotIds(task[p].pre[1]) :
       /\ Len(ids) > task[p].keep
       /\ task[p].ids = snapshotsToDelete(ids, task[p].keep)

\* C11: retention bound.  When cleanupOldSnapshots(db, keepCount) commits on
\* N > keepCount snapshots, keepCount snapshots are left, each of them created
\* after (with a greater id than) every snapshot it deleted, the records of
\* the deleted ones are gone and those of the others are untouched; and a
\* call that returns after its SELECT deletes nothing.
C11_RetentionBound ==
  [][ \A p \in Pruners :
        /\ (task[p].pc = "p_list" /\ task'[p].pc = "idle") => db' = db
        /\ PruneCommits(p) =>
             LET before == task[p].pre[1]
                 gone == before.snapshots \ db'.snapshots
             IN /\ db'.snapshots \subseteq before.snapshots
                /\ Cardinality(db'.snapshots) = task[p].keep
                /\ \A a \in db'.snapshots, b \in gone : a.id > b.id
                /\ db'.snapshot_data =
                     { r \in before.snapshot_data :
                         \E a \in db'.snapshots : a.id = r.snapshot_id } ]_vars

\* the snapshot that createSnapshot, called by p, reported is in d with
\* exactly the rows the call read
HoldsCopy(d, p) ==
  /\ task[p].result # Null
  /\ \E sn \in d.snapshots :
       sn.id = task[p].result[1].id /\ sn.name = task[p].result[1].name
  /\ RecordsOf(d, task[p].result[1].id) = ChunkRows(task[p].result[1].id, task[p].data)

\* C13: graceful shutdown.  The SIGINT handler calls createSnapshot and never
\* cleanupOldSnapshots, and when the process has exited with a non-empty
\* store and no statement was rejected, that call returned a snapshot, which
\* is in the database with the rows it read.
C13_GracefulShutdown ==
  /\ task["sigint"].pc \notin PrunePcs
  /\ (task["sigint"].pc = "exited" /\ faults = 0 /\ db.activity # {}) =>
       HoldsCopy(db, "sigint")

\* C17: racing creates.  When the process has exited after a firing and the
\* SIGINT handler both called createSnapshot on a non-empty store, and no
\* statement was rejected, both calls returned a result, with different ids
\* and names, and each snapshot holds the rows its call read.
C17_RacingCreatesBothSucceed ==
  ( /\ task["sigint"].pc = "exited" /\ task["timer"].pc # "idle"
    /\ faults = 0 /\ db.activity # {} ) =>
    /\ HoldsCopy(db, "sigint")
    /\ HoldsCopy(db, "timer")
    /\ task["sigint"].result[1].id # task["timer"].result[1].id
    /\ task["sigint"].result[1].name # task["timer"].result[1].name

\* C18: pruning never reclaims.  When cleanupOldSnapshots commits, the
\* greatest snapshot id, the watermark and the id of the next snapshot are
\* what they were when its transaction began.
C18_PruneNeverReclaims ==
  [][ \A p \in Pruners :
        (task[p].pc = "p_commit" /\ task'[p].pc = "idle" /\ task[p].keep >= 1) =>
          /\ MaxId(db') = MaxId(task[p].pre[1])
          /\ db'.seq = task[p].pre[1].seq
          /\ NextId(db') = NextId(task[p].pre[1]) ]_vars

\* C19: snapshots are immutable.  In every step, every committed snapshot
\* whose id is still committed afterwards has the same name, the same
\* created_at and the same records as before.
C19_SnapshotsImmutable ==
  [][ \A sn \in Committed.snapshots :
        (\E t \in Committed'.snapshots : t.id = sn.id) =>
          /\ sn \in Committed'.snapshots
          /\ RecordsOf(Committed', sn.id) = RecordsOf(Committed, sn.id) ]_vars

\* snapshot 3 was deleted, a message was counted or a snapshot created, and
\* snapshots 1 and 2 are as they were committed
C19_Witness ==
  /\ \E h \in Handlers : dl[h].status = 200 /\ dl[h].id = 3 /\ dl[h].removed = 1
  /\ (\E p \in Creators : task[p].why = "ok") \/ db.activity # SeededDb.activity
  /\ ~InTxn
  /\ \A n \in 1..2 :
       /\ [ id |-> n, name |-> SeedNames[n], created_at |-> Timestamp(SeedNames[n]) ]
            \in db.snapshots
       /\ RecordsOf(db, n) = { Frozen(n, SeedRow(n)) }

\* C20: no orphan records.  Every committed record belongs to a committed
\* snapshot, and a committed snapshot that createSnapshot reported, under a
\* new or a reclaimed id, has exactly the records that call inserted.
C20_NoOrphanRecords ==
  /\ \A r \in Committed.snapshot_data :
       \E sn \in Committed.snapshots : sn.id = r.snapshot_id
  /\ \A p \in Creators :
       ( /\ task[p].why = "ok"
         /\ \E sn \in Committed.snapshots :
              sn.id = task[p].result[1].id /\ sn.name = task[p].result[1].name )
       => RecordsOf(Committed, task[p].id) = ChunkRows(task[p].id, task[p].data)

\* snapshot 3 and its records were deleted and a later createSnapshot was
\* given id 3 again: it has the two records of its own call
C20_Witness ==
  /\ \E h \in Handlers : dl[h].status = 200 /\ dl[h].id = 3 /\ dl[h].removed = 1
  /\ ~InTxn
  /\ \E p \in Creators :
       /\ task[p].why = "ok" /\ task[p].result[1].id = 3
       /\ RecordsOf(db, 3) = ChunkRows(3, task[p].data)
       /\ RecordsOf(db, 3) = { Frozen(3, SeedRow(4)), Frozen(3, BobRow(2)) }

\* C12: at scheduler start with an existing snapshot, elapsed is (now - last
\* created_at read as UTC) minus the one-hour skew; when elapsed is at least
\* the four-hour interval the delay of the first firing is zero, otherwise it
\* is exactly interval - elapsed; no create is issued before that delay has
\* passed and the first create is issued at start + delay.
C12_CatchUp ==
  sched.last # Null =>
    LET elapsed == (sched.at - sched.last[1]) - Skew
    IN /\ sched.pc = "timeout" =>
            /\ db.snapshots # {}
            /\ sched.last[1] = 1000 * MaxOf({ sn.created_at : sn \in db.snapshots })
            /\ sched.creates = 0
       /\ elapsed >= SNAPSHOT_INTERVAL => sched.delay = 0
       /\ elapsed < SNAPSHOT_INTERVAL => sched.delay = SNAPSHOT_INTERVAL - elapsed
       /\ sched.fired # << >> => sched.fired[1] = sched.at + sched.delay

\* the last snapshot is five hours old: the first create is issued at once
C12_Witness ==
  /\ sched.last # Null
  /\ sched.at - sched.last[1] = 5 * Skew
  /\ sched.delay = 0
  /\ sched.creates = 1
  /\ sched.fired = << sched.at >>
  /\ task["timer"].pc = "c_insert"

\* the last snapshot is two hours old: the first create is issued three hours
\* after the start
C12_WitnessWait ==
  /\ sched.last # Null
  /\ sched.at - sched.last[1] = 2 * Skew
  /\ sched.delay = 3 * Skew
  /\ sched.fired = << sched.at + 3 * Skew >>

\* C14: no firing of the scheduler starts its create or prune while the
\* create or prune of a previous firing is still in progress, however slow
\* that firing is.
C14_FiringsNeverOverlap ==
  Cardinality({ p \in Firings : task[p].pc # "idle" }) <= 1

\* a firing whose createSnapshot has failed and returned
FailedFiring ==
  \E p \in Firings : task[p].pc = "p_list" /\ task[p].why \in { "error", "begin" }

\* once the interval runs, its firings are one interval apart and the next
\* one is due one interval after the last; no transaction stays open when
\* no firing is in progress
TimerKeepsRunning ==
  /\ alive
  /\ (\A p \in Firings : task[p].pc = "idle") => txn = NoTxn
  /\ sched.pc = "interval" =>
       /\ sched.due = sched.fired[Len(sched.fired)] + SNAPSHOT_INTERVAL
       /\ \A k \in (Len(sched.fired) - sched.ticks)..(Len(sched.fired) - 1) :
            sched.fired[k + 1] = sched.fired[k] + SNAPSHOT_INTERVAL

\* C15: a firing that fails (a statement rejected, BEGIN rejected because a
\* transaction is open) does not stop the recurring timer: the firing
\* returns, the next firing is issued one interval after it, and once the
\* firings have returned no transaction is left open.
C15_FailingFiringKeepsTimer ==
  /\ []TimerKeepsRunning
  /\ \A c \in 1..(MaxTicks + 2) :
       (FailedFiring /\ sched.ticks < MaxTicks /\ sched.creates = c)
         ~> (sched.creates = c + 1)

\* C16: in every startup case the scheduler issues exactly one create before
\* the first tick of the interval, so never two creates back to back.
C16_OneFiringAtStartup ==
  /\ sched.ticks = 0 => sched.creates <= 1
  /\ sched.pc = "interval" => sched.creates = sched.ticks + 1

\* the watermark of d is at least the maximum id, and of two snapshots the
\* one with the greater id was inserted later (created_at is the instant of
\* the INSERT; the name is the instant of the call, which may have waited)
IdsSafe(d) ==
  /\ d.seq >= MaxId(d)
  /\ \A a, b \in d.snapshots : a.id < b.id => a.created_at <= b.created_at

\* C21: in every reachable state, whatever the interleaving of delete
\* requests, prune and create, the watermark is at least the maximum live
\* snapshot id (in the committed state and in the state the connection
\* sees), live snapshot ids are in creation order, and every snapshot that
\* is inserted, and every snapshot that becomes committed, has an id greater
\* than that of every snapshot live before.
C21_IdSafety ==
  /\ [](IdsSafe(db) /\ IdsSafe(Committed))
  /\ [][ /\ \A p \in Procs :
              (task[p].pc = "c_insert" /\ task'[p].pc = "c_read") =>
                /\ task'[p].id > MaxId(db)
                /\ \E sn \in db'.snapshots : sn.id = task'[p].id
           /\ \A sn \in Committed'.snapshots \ Committed.snapshots :
                sn.id > MaxId(Committed) ]_vars

\* a delete request for snapshot 3 found it to be the maximum; a create then
\* committed snapshot 4; the request deleted 3 and wrote the watermark 4
C21_Witness ==
  /\ ~InTxn
  /\ { sn.id : sn \in db.snapshots } = { 1, 2, 4 }
  /\ db.seq = 4
  /\ \E h \in Handlers : dl[h].status = 200 /\ dl[h].id = 3 /\ dl[h].reset
  /\ \E p \in Creators : task[p].why = "ok" /\ task[p].result[1].id = 4

\* C22: whatever the age of the newest snapshot at the start of the
\* scheduler, the delay of the first firing is within [0, interval] and the
\* first create is issued no later than one interval after the start.
C22_InitialDelayBounded ==
  /\ sched.delay >= 0
  /\ sched.delay <= SNAPSHOT_INTERVAL
  /\ (sched.last # Null /\ sched.fired # << >>) =>
       sched.fired[1] <= sched.at + SNAPSHOT_INTERVAL

====
